---- MODULE Spec2Model ----
(***************************************************************************)
(* ELF image inspection of the Swift runtime                               *)
(* (stdlib/public/runtime/ImageInspectionELF.cpp).                         *)
(*                                                                         *)
(* The program keeps two registries (InspectArgs instances), one for the   *)
(* protocol conformance tables and one for the type metadata record        *)
(* tables.  initialize*Lookup() queries the main executable and then walks *)
(* the loaded images with dl_iterate_phdr(); swift_addNewDSOImage() is the *)
(* hook the loader runs for every image loaded later.                      *)
(*                                                                         *)
(* The dynamic loader (dlopen, dlsym, dladdr, dl_iterate_phdr) is the      *)
(* environment.  Its behaviour is fixed per run by the variables android,  *)
(* image, mainListedNamed and phdrVisits, which no action changes.         *)
(*                                                                         *)
(* A length prefix is a uint64_t and addBlock() takes a uintptr_t.  The    *)
(* prefix of a section that is mapped in the process is less than the size *)
(* of the address space, so that conversion keeps the value.               *)
(***************************************************************************)
EXTENDS Bags, FiniteSets, Integers, Sequences, TLC

(* ----------------------------- bounds ---------------------------------- *)

\* Number of images besides the main executable.
NumImages == 1
\* initialize*Lookup() calls per registry.
MaxInit == 2
\* swift_addNewDSOImage() calls that are not the notification of a load.
MaxNotify == 1

(* ------------------------ program constants ---------------------------- *)

\* sizeof(uint64_t): the length prefix at the head of a section.
PrefixBytes == 8

\* The two InspectArgs instances.
Registries == {"ProtocolConformance", "TypeMetadataRecord"}

ProtocolConformancesSymbol == ".swift2_protocol_conformances_start"

TypeMetadataRecordsSymbol == ".swift2_type_metadata_start"

SymbolNames == {ProtocolConformancesSymbol, TypeMetadataRecordsSymbol}

\* As symbolName, but both instances hold the conformances symbol.
symbolName_sameForBoth == [r \in Registries |-> ProtocolConformancesSymbol]

\* InspectArgs::symbolName of each instance.
symbolName ==
  [r \in Registries |->
     IF r = "ProtocolConformance" THEN ProtocolConformancesSymbol
                                  ELSE TypeMetadataRecordsSymbol]

\* InspectArgs::addBlock of each instance, named by the callback it holds.
addBlock ==
  [r \in Registries |->
     IF r = "ProtocolConformance" THEN "addImageProtocolConformanceBlockCallback"
                                  ELSE "addImageTypeMetadataRecordBlockCallback"]

(* --------------------------- the images -------------------------------- *)

MainImage == 0

Images == 0 .. NumImages

\* File names of the images; the main executable's comes first.
Paths == << "/usr/bin/main", "libA.so", "libB.so", "libC.so", "libD.so" >>

ImagePath(i) == Paths[i + 1]

\* A `const char *': the null pointer, or a string.
nullptr == [null |-> TRUE, str |-> ""]

CString(s) == [null |-> FALSE, str |-> s]

\* Addresses.  Image i is mapped at [ImageBase(i), ImageBase(i) + 64).
NullAddr == 0

ImageBase(i) == 64 * (i + 1)

ImageEnd(i) == ImageBase(i) + 64

\* Where a section symbol lies in image i.
SymbolAddress(i, sym) ==
  ImageBase(i) + (IF sym = ProtocolConformancesSymbol THEN 16 ELSE 40)

\* An address no image is mapped at.
UnmappedAddr == ImageBase(MainImage) - 1

\* What a section symbol of an image holds: absent, or present with the
\* uint64_t found at its head.
NoSection == [present |-> FALSE, prefix |-> 0]

Section(p) == [present |-> TRUE, prefix |-> p]

\* The symbol tables of the model's images that dlopen() can open: what each
\* registry finds is absent, empty or not, and the two differ.  A prefix is
\* whatever the toolchain wrote: 4096 is more than an image of the model holds.
SymbolTable(conformances, records) ==
  [s \in SymbolNames |->
     IF s = ProtocolConformancesSymbol THEN conformances ELSE records]

SymbolTables ==
  { SymbolTable(Section(8), Section(8)),
    SymbolTable(Section(8), NoSection),
    SymbolTable(Section(0), Section(4096)),
    SymbolTable(NoSection, Section(0)) }

\* What dlopen(path, RTLD_LAZY | RTLD_NOLOAD) does with an image: it opens it,
\* fails because the image is not resident, or fails for another reason.
OpenResults == {"ok", "notloaded", "error"}

\* A pseudo-image of the loader (the dynamic linker itself): it has no file
\* name, so neither dl_iterate_phdr() nor dladdr() gives one.
PseudoImage ==
  [named |-> FALSE, open |-> "notloaded",
   symbols |-> SymbolTable(NoSection, NoSection)]

\* An image with a file name that dlopen() cannot open.
UnopenableImage(why) ==
  [named |-> TRUE, open |-> why, symbols |-> SymbolTable(NoSection, NoSection)]

OpenableImages == [named : {TRUE}, open : {"ok"}, symbols : SymbolTables]

ImageKinds ==
  OpenableImages \cup {PseudoImage}
    \cup {UnopenableImage(why) : why \in OpenResults \ {"ok"}}

(* ----------------------------- state ----------------------------------- *)

VARIABLES
  android,              \* the build: TRUE when __ANDROID__ is defined
  image,                \* what each image is (ImageKinds)
  mainListedNamed,      \* dl_iterate_phdr() gives the main executable a name
  phdrVisits,           \* dl_iterate_phdr() visits the loaded images
  loaded,               \* the loader's list of images, in load order
  didInitializeLookup,  \* InspectArgs::didInitializeLookup of each registry
  pc,                   \* where each registry's initialize*Lookup() stands
  initCalls,            \* initialize*Lookup() calls started, per registry
  initDone,             \* initialize*Lookup() calls returned, per registry
  notifyCalls,          \* swift_addNewDSOImage() calls outside of a load
  lookups,              \* bag of the getSectionInfo() calls made
  blocks,               \* bag of the addBlock() callbacks made
  openHandles,          \* dlopen() handles not yet dlclose()d
  dead,                 \* fatalError() has terminated the process
  fatal,                \* what the process died of
  last                  \* the last swift_addNewDSOImage() call

env == << android, image, mainListedNamed, phdrVisits >>

vars ==
  << android, image, mainListedNamed, phdrVisits, loaded, didInitializeLookup,
     pc, initCalls, initDone, notifyCalls, lookups, blocks, openHandles, dead,
     fatal, last >>

(* ------------------- the dynamic loader's interface -------------------- *)

\* The image a file name belongs to.
ImageOfPath(s) == CHOOSE i \in Images : ImagePath(i) = s

NullHandle == -1

\* dlopen(imageName, RTLD_LAZY | RTLD_NOLOAD): nothing is loaded; a null name
\* gives the handle of the main executable.
dlopen(imageName) ==
  IF imageName.null
    THEN [handle |-> MainImage, dlerror |-> "none"]
    ELSE LET i == ImageOfPath(imageName.str)
         IN  IF image[i].open = "ok"
               THEN [handle |-> i, dlerror |-> "none"]
               ELSE [handle |-> NullHandle, dlerror |-> image[i].open]

\* dlsym(handle, sectionName): the symbol's address, or null.
dlsym(handle, sectionName) ==
  IF image[handle].symbols[sectionName].present
    THEN SymbolAddress(handle, sectionName)
    ELSE NullAddr

\* The uint64_t stored at the address of a section symbol.
ReadUInt64(addr) ==
  LET at == CHOOSE p \in Images \X SymbolNames : SymbolAddress(p[1], p[2]) = addr
  IN  image[at[1]].symbols[at[2]].prefix

\* dladdr(addr, &info): 0 when no loaded image holds addr; dli_fname is null
\* for an image without a file name.
dladdr(list, addr) ==
  LET holds == {i \in Images :
                  /\ \E k \in 1 .. Len(list) : list[k] = i
                  /\ ImageBase(i) <= addr
                  /\ addr < ImageEnd(i)}
  IN  IF holds = {}
        THEN [ret |-> 0, dli_fname |-> nullptr]
        ELSE LET i == CHOOSE j \in holds : TRUE
             IN  [ret |-> 1,
                  dli_fname |-> IF image[i].named THEN CString(ImagePath(i))
                                                  ELSE nullptr]

\* dl_phdr_info::dlpi_name of an entry of the loader's list.  The main
\* executable comes with an empty name or with its file name, a pseudo-image
\* with an empty name.
dlpi_name(i) ==
  IF i = MainImage
    THEN (IF mainListedNamed THEN CString(ImagePath(i)) ELSE CString(""))
    ELSE (IF image[i].named THEN CString(ImagePath(i)) ELSE CString(""))

(* -------------------------- the program -------------------------------- *)

\* The image a getSectionInfo() call is about.
TargetImage(imageName) ==
  IF imageName.null THEN MainImage ELSE ImageOfPath(imageName.str)

\* fatalError(): the process ends here; what had happened by then is kept.
fatalError(m, who, imageName, why) ==
  [m EXCEPT !.dead = TRUE,
            !.fatal = [reg |-> who.reg, via |-> who.via,
                       image |-> TargetImage(imageName), dlerror |-> why,
                       lookups |-> BagCardinality(m.lookups),
                       blocks |-> BagCardinality(m.blocks)]]

\* As OpenFailed, but without the Android branch: every build ends the process.
OpenFailed_alwaysFatal(m, who, imageName, why) ==
  fatalError(m, who, imageName, why)

\* As OpenFailed, but every build takes the Android branch.
OpenFailed_neverFatal(m, who, imageName, why) == m

\* getSectionInfo(), lines 70-77: dlopen() gave no handle.  An Android build
\* returns the empty sectionInfo, any other build ends the process.
OpenFailed(m, who, imageName, why) ==
  IF android THEN m ELSE fatalError(m, who, imageName, why)

\* As SectionAt, but the data start at the symbol, on the length prefix.
SectionAt_noSkip(symbol) == [size |-> ReadUInt64(symbol), data |-> symbol]

\* getSectionInfo(), lines 79-84: the section at a symbol that was found.  The
\* size is the uint64_t at the symbol, the data start right after it.
SectionAt(symbol) ==
  [size |-> ReadUInt64(symbol), data |-> symbol + PrefixBytes]

\* As dlclose, but the handle is kept.
dlclose_leaks(m) == m

\* getSectionInfo(), line 85: dlclose(handle) gives the handle back.
dlclose(m) == [m EXCEPT !.handles = @ - 1]

\* getSectionInfo(imageName, sectionName).  who names the caller (registry
\* and path), for the record of the call only.
getSectionInfo(m, who, imageName, sectionName) ==
  LET sectionInfo == [size |-> 0, data |-> NullAddr]
      opened == dlopen(imageName)
      called ==
        [m EXCEPT !.lookups =
           @ (+) SetToBag({[reg |-> who.reg, via |-> who.via,
                            image |-> TargetImage(imageName),
                            name |-> imageName, symbol |-> sectionName]})]
  IN  IF opened.handle = NullHandle
        THEN [m |-> OpenFailed(called, who, imageName, opened.dlerror),
              info |-> sectionInfo]
        ELSE LET held == [called EXCEPT !.handles = @ + 1]
                 symbol == dlsym(opened.handle, sectionName)
             IN  [m |-> dlclose(held),
                  info |-> IF symbol # NullAddr THEN SectionAt(symbol)
                                                ELSE sectionInfo]

\* As CallAddBlock, but a section the registry has been given before is not
\* given to it again.
CallAddBlock_deduplicates(m, who, imageName, block) ==
  IF \E b \in BagToSet(m.blocks) :
       b.reg = who.reg /\ b.image = TargetImage(imageName)
    THEN m
    ELSE [m EXCEPT !.blocks =
            @ (+) SetToBag({[reg |-> who.reg, via |-> who.via,
                             callback |-> addBlock[who.reg],
                             image |-> TargetImage(imageName),
                             data |-> block.data, size |-> block.size]})]

\* inspectArgs->addBlock(block.data, block.size)
CallAddBlock(m, who, imageName, block) ==
  [m EXCEPT !.blocks =
     @ (+) SetToBag({[reg |-> who.reg, via |-> who.via,
                      callback |-> addBlock[who.reg],
                      image |-> TargetImage(imageName),
                      data |-> block.data, size |-> block.size]})]

\* As ReportBlock, but a block of size 0 is reported too.
ReportBlock_reportsEmpty(m, who, fname) ==
  LET got == getSectionInfo(m, who, fname, symbolName[who.reg])
  IN  IF got.m.dead
        THEN got.m
        ELSE CallAddBlock(got.m, who, fname, got.info)

\* The tail shared by iteratePHDRCallback() (lines 108-111) and
\* addBlockInImage() (lines 126-129).
ReportBlock(m, who, fname) ==
  LET got == getSectionInfo(m, who, fname, symbolName[who.reg])
  IN  IF got.m.dead
        THEN got.m
        ELSE IF got.info.size > 0
               THEN CallAddBlock(got.m, who, fname, got.info)
               ELSE got.m

\* iteratePHDRCallback(info, size, data), with fname = info->dlpi_name and
\* data the registry r.  It returns 0, so the walk goes on.
iteratePHDRCallback(m, fname, r) ==
  LET set == [m EXCEPT !.flag[r] = TRUE]
  IN  IF fname.null \/ fname.str = ""
        THEN set
        ELSE ReportBlock(set, [reg |-> r, via |-> "enumerate"], fname)

\* As addBlockInImage, but without the return at line 122: an address that
\* dladdr() does not resolve goes on with fname still null.
addBlockInImage_noReturn(m, r, addr, via) ==
  LET info == dladdr(m.loaded, addr)
      who == [reg |-> r, via |-> via]
      noted == [m EXCEPT !.entered = @ \cup {r}]
  IN  IF addr # NullAddr /\ info.ret # 0 /\ ~info.dli_fname.null
        THEN ReportBlock(noted, who, info.dli_fname)
        ELSE ReportBlock(noted, who, nullptr)

\* addBlockInImage(inspectArgs, addr), called on path via.
addBlockInImage(m, r, addr, via) ==
  LET info == dladdr(m.loaded, addr)
      who == [reg |-> r, via |-> via]
      noted == [m EXCEPT !.entered = @ \cup {r}]
  IN  IF addr # NullAddr
        THEN IF info.ret = 0 \/ info.dli_fname.null
               THEN noted
               ELSE ReportBlock(noted, who, info.dli_fname)
        ELSE ReportBlock(noted, who, nullptr)

\* dl_iterate_phdr(iteratePHDRCallback, inspectArgs) over the entries list,
\* under the loader's lock.
RECURSIVE WalkImages(_, _, _)
WalkImages(m, list, r) ==
  IF list = << >> \/ m.dead
    THEN m
    ELSE WalkImages(iteratePHDRCallback(m, dlpi_name(Head(list)), r),
                    Tail(list), r)

\* As dl_iterate_phdr, but only the first entry of the loader's list, the main
\* executable, is visited.
dl_iterate_phdr_mainOnly(m, r) ==
  IF phdrVisits THEN WalkImages(m, << Head(m.loaded) >>, r) ELSE m

dl_iterate_phdr(m, r) ==
  IF phdrVisits THEN WalkImages(m, m.loaded, r) ELSE m

\* As initializeSectionLookup_main, but the flag is set outside the callback,
\* before dl_iterate_phdr() is called.
initializeSectionLookup_main_setsFlag(m, r) ==
  addBlockInImage([m EXCEPT !.flag[r] = TRUE], r, NullAddr, "main")

\* As initializeSectionLookup_main, but the call first puts the registry back
\* to not initialized.
initializeSectionLookup_main_resetsFlag(m, r) ==
  addBlockInImage([m EXCEPT !.flag[r] = FALSE], r, NullAddr, "main")

\* initializeSectionLookup(), first statement: the main executable.
initializeSectionLookup_main(m, r) ==
  addBlockInImage(m, r, NullAddr, "main")

\* As initializeSectionLookup_walk, but a registry that is initialized already
\* is not walked again.
initializeSectionLookup_walk_onlyOnce(m, r) ==
  IF m.flag[r] THEN m ELSE dl_iterate_phdr(m, r)

\* initializeSectionLookup(), second statement: the images already loaded.
initializeSectionLookup_walk(m, r) ==
  dl_iterate_phdr(m, r)

\* As swift_addNewDSOImage, but without the didInitializeLookup checks.
swift_addNewDSOImage_unchecked(m, addr) ==
  LET first == addBlockInImage(m, "ProtocolConformance", addr, "notify")
  IN  IF first.dead
        THEN first
        ELSE addBlockInImage(first, "TypeMetadataRecord", addr, "notify")

\* As swift_addNewDSOImage, but the second registry is an else branch of the
\* first.
swift_addNewDSOImage_elseIf(m, addr) ==
  IF m.flag["ProtocolConformance"]
    THEN addBlockInImage(m, "ProtocolConformance", addr, "notify")
    ELSE IF m.flag["TypeMetadataRecord"]
           THEN addBlockInImage(m, "TypeMetadataRecord", addr, "notify")
           ELSE m

\* swift_addNewDSOImage(addr)
swift_addNewDSOImage(m, addr) ==
  LET first ==
        IF m.flag["ProtocolConformance"]
          THEN addBlockInImage(m, "ProtocolConformance", addr, "notify")
          ELSE m
  IN  IF first.dead
        THEN first
        ELSE IF first.flag["TypeMetadataRecord"]
               THEN addBlockInImage(first, "TypeMetadataRecord", addr, "notify")
               ELSE first

(* --------------------------- the actions ------------------------------- *)

NoFatal ==
  [reg |-> "none", via |-> "none", image |-> MainImage, dlerror |-> "none",
   lookups |-> 0, blocks |-> 0]

NoCall ==
  [op |-> "none", addr |-> NullAddr, flags |-> [r \in Registries |-> FALSE],
   entered |-> {}]

\* The process as the program's functions see it.
Process ==
  [loaded |-> loaded, flag |-> didInitializeLookup, lookups |-> lookups,
   blocks |-> blocks, handles |-> openHandles, dead |-> dead, fatal |-> fatal,
   entered |-> {}]

\* The process after a call that left it as m.
Becomes(m) ==
  /\ loaded' = m.loaded
  /\ didInitializeLookup' = m.flag
  /\ lookups' = m.lookups
  /\ blocks' = m.blocks
  /\ openHandles' = m.handles
  /\ dead' = m.dead
  /\ fatal' = m.fatal

\* The platform: the build, the images and what dl_iterate_phdr() calls the
\* main executable.  dlopen(nullptr) and the main executable's own file
\* always open.
InitPlatform ==
  /\ android \in BOOLEAN
  /\ image \in [Images -> ImageKinds]
  /\ image[MainImage] \in OpenableImages
  /\ mainListedNamed \in BOOLEAN

\* The process at its start: the main executable is mapped, both registries
\* are as their initializers (lines 51-61) leave them.
InitProcess ==
  /\ loaded = << MainImage >>
  /\ didInitializeLookup = [r \in Registries |-> FALSE]
  /\ pc = [r \in Registries |-> "idle"]
  /\ initCalls = [r \in Registries |-> 0]
  /\ initDone = [r \in Registries |-> 0]
  /\ notifyCalls = 0
  /\ lookups = EmptyBag
  /\ blocks = EmptyBag
  /\ openHandles = 0
  /\ dead = FALSE
  /\ fatal = NoFatal
  /\ last = NoCall

\* The loader's list always holds the main executable, so dl_iterate_phdr()
\* visits at least that entry.
Init == InitPlatform /\ phdrVisits = TRUE /\ InitProcess

\* initialize*Lookup() of registry r is called and queries the main
\* executable (initializeSectionLookup, line 134).
InitializeMain(r) ==
  /\ ~dead
  /\ pc[r] = "idle"
  /\ initCalls[r] < MaxInit
  /\ LET m == initializeSectionLookup_main(Process, r)
     IN  /\ Becomes(m)
         /\ pc' = [pc EXCEPT ![r] = IF m.dead THEN "idle" ELSE "walk"]
  /\ initCalls' = [initCalls EXCEPT ![r] = @ + 1]
  /\ UNCHANGED << env, initDone, notifyCalls, last >>

\* As InitializeWalk, but dl_iterate_phdr() does not come back once a second
\* image is in the loader's list.
InitializeWalk_blocks(r) ==
  /\ ~dead
  /\ pc[r] = "walk"
  /\ Len(loaded) = 1
  /\ \E m \in {initializeSectionLookup_walk(Process, r)} :
       /\ Becomes(m)
       /\ initDone' = [initDone EXCEPT ![r] = IF m.dead THEN @ ELSE @ + 1]
  /\ pc' = [pc EXCEPT ![r] = "idle"]
  /\ UNCHANGED << env, initCalls, notifyCalls, last >>

\* initialize*Lookup() of registry r walks the loaded images and returns
\* (initializeSectionLookup, line 138).  The walk holds the loader's lock.
InitializeWalk(r) ==
  /\ ~dead
  /\ pc[r] = "walk"
  /\ \E m \in {initializeSectionLookup_walk(Process, r)} :
       /\ Becomes(m)
       /\ initDone' = [initDone EXCEPT ![r] = IF m.dead THEN @ ELSE @ + 1]
  /\ pc' = [pc EXCEPT ![r] = "idle"]
  /\ UNCHANGED << env, initCalls, notifyCalls, last >>

\* The loader maps image i and, still holding its lock, runs the image's
\* initializer, which calls swift_addNewDSOImage() with an address in it.
LoadImage(i) ==
  /\ ~dead
  /\ i # MainImage
  /\ \A k \in 1 .. Len(loaded) : loaded[k] # i
  /\ LET m == swift_addNewDSOImage(
                [Process EXCEPT !.loaded = Append(@, i)], ImageBase(i))
     IN  /\ Becomes(m)
         /\ last' = [op |-> "load", addr |-> ImageBase(i),
                     flags |-> didInitializeLookup, entered |-> m.entered]
  /\ UNCHANGED << env, pc, initCalls, initDone, notifyCalls >>

\* The addresses swift_addNewDSOImage() is called with.
Addresses == {NullAddr, UnmappedAddr} \cup {ImageBase(i) : i \in Images}

\* swift_addNewDSOImage(addr) called by anyone, under the loader's lock.
OnNewImage(addr) ==
  /\ ~dead
  /\ notifyCalls < MaxNotify
  /\ LET m == swift_addNewDSOImage(Process, addr)
     IN  /\ Becomes(m)
         /\ last' = [op |-> "call", addr |-> addr,
                     flags |-> didInitializeLookup, entered |-> m.entered]
  /\ notifyCalls' = notifyCalls + 1
  /\ UNCHANGED << env, pc, initCalls, initDone >>

Next ==
  \/ \E r \in Registries : InitializeMain(r)
  \/ \E r \in Registries : InitializeWalk(r)
  \/ \E i \in Images : LoadImage(i)
  \/ \E addr \in Addresses : OnNewImage(addr)

Spec == Init /\ [][Next]_vars

\* The supported use under the loader's lock: each registry is initialized
\* at most once, and swift_addNewDSOImage() runs only as part of a load.
FirstInitializeMain(r) == initCalls[r] = 0 /\ InitializeMain(r)

NextLoader ==
  \/ \E r \in Registries : FirstInitializeMain(r)
  \/ \E r \in Registries : InitializeWalk(r)
  \/ \E i \in Images : LoadImage(i)

SpecLoader == Init /\ [][NextLoader]_vars

\* As Spec, on a platform whose dl_iterate_phdr() may also return without
\* having called back.
InitAnyWalk == InitPlatform /\ phdrVisits \in BOOLEAN /\ InitProcess

SpecAnyWalk == InitAnyWalk /\ [][Next]_vars

\* SpecLoader with the thread that is inside initialize*Lookup() running on:
\* the call to dl_iterate_phdr() is made and, over a finite list, comes back.
SpecLoaderLive ==
  SpecLoader /\ \A r \in Registries : WF_vars(InitializeWalk(r))

(* ------------------------ reading the records -------------------------- *)

RECURSIVE SumCopies(_, _)
SumCopies(S, bag) ==
  IF S = {}
    THEN 0
    ELSE LET e == CHOOSE x \in S : TRUE
         IN  CopiesIn(e, bag) + SumCopies(S \ {e}, bag)

\* getSectionInfo() calls registry r made on image i on the paths vias.
LookupsOf(r, i, vias) ==
  SumCopies({e \in BagToSet(lookups) :
               e.reg = r /\ e.image = i /\ e.via \in vias}, lookups)

\* addBlock() callbacks registry r made for image i on the paths vias.
BlocksOf(r, i, vias) ==
  SumCopies({b \in BagToSet(blocks) :
               b.reg = r /\ b.image = i /\ b.via \in vias}, blocks)

IsLoaded(i) == \E k \in 1 .. Len(loaded) : loaded[k] = i

\* The section registry r looks for in image i.
SectionOf(r, i) == image[i].symbols[symbolName[r]]

\* Image i can be opened and holds a non-empty section for registry r.
HasBlock(r, i) ==
  /\ image[i].open = "ok"
  /\ SectionOf(r, i).present
  /\ SectionOf(r, i).prefix > 0

\* The image an address lies in.
ImageAt(addr) ==
  CHOOSE i \in Images : ImageBase(i) <= addr /\ addr < ImageEnd(i)

InImage(addr) == \E i \in Images : ImageBase(i) <= addr /\ addr < ImageEnd(i)

\* A getSectionInfo() call whose dlopen() failed.
FailedOpen(e) == ~e.name.null /\ image[e.image].open # "ok"

(* ----------------------------- claims ----------------------------------- *)

\* C1.  With each load and its notification atomic with respect to the walk,
\* for every interleaving of a registry's one initialize*Lookup() with loads,
\* every loaded image other than the main executable that holds a non-empty
\* section for the registry is looked up and reported by the walk or by the
\* load notification: never by both, and by one of them once
\* initialize*Lookup() has returned.
C1_ExactlyOneOfWalkAndNotification ==
  ~dead =>
    \A r \in Registries : \A i \in Images \ {MainImage} :
      (IsLoaded(i) /\ HasBlock(r, i)) =>
        LET walked == LookupsOf(r, i, {"enumerate"})
            notified == LookupsOf(r, i, {"notify"})
        IN  /\ walked + notified <= 1
            /\ initDone[r] >= 1 => walked + notified = 1
            /\ BlocksOf(r, i, {"enumerate"}) = walked
            /\ BlocksOf(r, i, {"notify"}) = notified

\* An image that one registry got from its load notification and the other,
\* initialized after the load, from its walk.
C1_Witness ==
  \E i \in Images \ {MainImage} :
    /\ HasBlock("ProtocolConformance", i)
    /\ HasBlock("TypeMetadataRecord", i)
    /\ BlocksOf("ProtocolConformance", i, {"notify"}) = 1
    /\ BlocksOf("TypeMetadataRecord", i, {"enumerate"}) = 1
    /\ initDone["ProtocolConformance"] = 1
    /\ initDone["TypeMetadataRecord"] = 1

\* C2.  One initialize*Lookup() call on a fresh registry looks up the main
\* executable exactly once and every other image at most once, whether
\* dl_iterate_phdr() gives the main executable an empty name or its file name.
C2_MainOnceOthersAtMostOnce ==
  \A r \in Registries :
    (initCalls[r] = 1 /\ initDone[r] = 1) =>
      /\ LookupsOf(r, MainImage, {"main", "enumerate"}) = 1
      /\ \A i \in Images \ {MainImage} :
           LookupsOf(r, i, {"main", "enumerate"}) <= 1

\* C3.  A registry whose didInitializeLookup is false has had no callback and
\* no lookup from swift_addNewDSOImage(), whatever the address was and
\* whatever the other registry's flag is.
C3_UninitializedGetsNothing ==
  \A r \in Registries :
    ~didInitializeLookup[r] =>
      \A i \in Images :
        /\ BlocksOf(r, i, {"notify"}) = 0
        /\ LookupsOf(r, i, {"notify"}) = 0

\* swift_addNewDSOImage() was just called with an address in a loaded image
\* that holds a block for a registry that is not initialized, while the other
\* registry is initialized and got its block.
C3_Witness ==
  \E r \in Registries : \E o \in Registries \ {r} :
    /\ last.op # "none"
    /\ InImage(last.addr)
    /\ IsLoaded(ImageAt(last.addr))
    /\ HasBlock(r, ImageAt(last.addr))
    /\ ~didInitializeLookup[r]
    /\ last.flags[o]
    /\ BlocksOf(o, ImageAt(last.addr), {"notify"}) >= 1

\* C4.  swift_addNewDSOImage() with a null address does nothing: no lookup and
\* no callback is ever made for a null address, also when a registry is
\* initialized.
C4_NullAddressIsNoOp ==
  /\ \A e \in BagToSet(lookups) : ~(e.via = "notify" /\ e.name.null)
  /\ (last.op # "none" /\ last.addr = NullAddr) => last.entered = {}

\* C5.  didInitializeLookup of a registry is false until its
\* initialize*Lookup() is called and true once a call has returned, whatever
\* the walk visited, a walk that visits nothing included.
C5_FlagFollowsInitialize ==
  \A r \in Registries :
    /\ initCalls[r] = 0 => ~didInitializeLookup[r]
    /\ initDone[r] >= 1 => didInitializeLookup[r]

\* C6.  Every callback, on each of the three paths, carries a size greater
\* than 0 and comes from a section that is present with a non-zero prefix: an
\* image whose section is absent or of length 0 causes none.
C6_OnlyNonEmptyBlocks ==
  /\ \A b \in BagToSet(blocks) : b.size > 0 /\ HasBlock(b.reg, b.image)
  /\ \A r \in Registries : \A i \in Images :
       ~HasBlock(r, i) => BlocksOf(r, i, {"main", "enumerate", "notify"}) = 0

\* A registry has looked up an image whose section is absent, an image whose
\* section has length 0, and has reported a block on each path.
C6_Witness ==
  \E r \in Registries :
    /\ \E i \in Images :
         /\ image[i].open = "ok" /\ ~SectionOf(r, i).present
         /\ LookupsOf(r, i, {"main", "enumerate", "notify"}) >= 1
    /\ \E i \in Images :
         /\ SectionOf(r, i).present /\ SectionOf(r, i).prefix = 0
         /\ LookupsOf(r, i, {"main", "enumerate", "notify"}) >= 1
    /\ \A via \in {"main", "enumerate", "notify"} :
         \E b \in BagToSet(blocks) : b.via = via

AllPaths == {"main", "enumerate", "notify"}

\* C7.  For an image that can be opened and holds the registry's symbol at
\* address S with a non-zero prefix L, getSectionInfo() returns data S + 8
\* and size L each time it is asked, so each lookup is followed by a callback
\* with exactly those; L is not compared with the extent of the image.
C7_RangeIsPrefixAndPayload ==
  /\ \A b \in BagToSet(blocks) :
       /\ b.data = SymbolAddress(b.image, symbolName[b.reg]) + 8
       /\ b.size = SectionOf(b.reg, b.image).prefix
  /\ \A r \in Registries : \A i \in Images :
       HasBlock(r, i) => BlocksOf(r, i, AllPaths) = LookupsOf(r, i, AllPaths)

\* A block was reported whose size is more than its whole image holds.
C7_Witness ==
  \E b \in BagToSet(blocks) :
    /\ b.size > ImageEnd(b.image) - ImageBase(b.image)
    /\ b.data = SymbolAddress(b.image, symbolName[b.reg]) + 8

\* C8.  A failed dlopen() of an image that is not resident is a normal
\* "absent": the process never dies of it.
C8_NotResidentIsNotFatal ==
  dead => fatal.dlerror # "notloaded"

\* C8 as amended.  On an Android build a failed dlopen(), of an image that is
\* not resident or for any other reason, is a normal "absent": the process is
\* not terminated, the walk goes on to the remaining images and the
\* notification to the remaining registry.
C8_AndroidOpenFailureIsAbsent ==
  android =>
    /\ ~dead
    /\ \A r \in Registries : \A i \in Images \ {MainImage} :
         (initDone[r] >= 1 /\ IsLoaded(i) /\ image[i].named) =>
           LookupsOf(r, i, {"enumerate", "notify"}) >= 1
    /\ \A r \in Registries : last.flags[r] => r \in last.entered

\* On Android, a registry was notified of an image that is not resident and
\* went on, and the other registry's walk went over the same image and
\* returned.
C8_Witness ==
  /\ android
  /\ ~dead
  /\ \E i \in Images \ {MainImage} : \E r \in Registries :
       \E o \in Registries \ {r} :
         /\ image[i].named
         /\ image[i].open = "notloaded"
         /\ LookupsOf(r, i, {"notify"}) >= 1
         /\ LookupsOf(o, i, {"enumerate"}) >= 1
         /\ initDone[o] >= 1

\* C9.  A failed dlopen() for a reason other than the image not being
\* resident terminates the process.
C9_OtherFailureIsFatal ==
  (\E e \in BagToSet(lookups) : FailedOpen(e) /\ image[e.image].open = "error")
    => dead

\* C9 as amended.  On a build other than Android a failed dlopen(), for any
\* reason, the image not being resident included, terminates the process at
\* that point with a diagnostic naming the image and the loader's error: the
\* failed lookup is the last one, and no callback follows it.
C9_NonAndroidOpenFailureIsFatal ==
  ~android =>
    /\ (\E e \in BagToSet(lookups) : FailedOpen(e)) <=> dead
    /\ dead =>
         /\ image[fatal.image].open = fatal.dlerror
         /\ fatal.dlerror # "ok"
         /\ LookupsOf(fatal.reg, fatal.image, {fatal.via}) >= 1
         /\ BagCardinality(lookups) = fatal.lookups
         /\ BagCardinality(blocks) = fatal.blocks

\* The process died in the first registry's part of a notification while the
\* second registry was initialized too.
C9_Witness ==
  /\ ~android
  /\ dead
  /\ fatal.via = "notify"
  /\ fatal.reg = "ProtocolConformance"
  /\ didInitializeLookup["TypeMetadataRecord"]
  /\ BagCardinality(blocks) >= 1

\* C10.  In one swift_addNewDSOImage() call every registry whose flag is true
\* is notified, whatever happened while the registry before it was served.
C10_EveryInitializedRegistryNotified ==
  \A r \in Registries : last.flags[r] => r \in last.entered

\* C10 as amended.  In one swift_addNewDSOImage() call every registry whose
\* flag is true is notified, unless the process was terminated while the
\* first registry was served (a failed dlopen() on a build other than
\* Android).
C10_NotifiedUnlessProcessEnded ==
  \A r \in Registries :
    last.flags[r] =>
      \/ r \in last.entered
      \/ /\ r = "TypeMetadataRecord"
         /\ ~android
         /\ dead
         /\ fatal.via = "notify"
         /\ fatal.reg = "ProtocolConformance"
         /\ last.flags["ProtocolConformance"]

\* A notification for an image that dlopen() cannot open reached both
\* registries.
C10_Witness ==
  /\ last.op # "none"
  /\ InImage(last.addr)
  /\ IsLoaded(ImageAt(last.addr))
  /\ image[ImageAt(last.addr)].named
  /\ image[ImageAt(last.addr)].open # "ok"
  /\ last.entered = Registries
  /\ \A r \in Registries : LookupsOf(r, ImageAt(last.addr), {"notify"}) >= 1

\* C11.  An image whose load notification skipped a registry, because the
\* registry's didInitializeLookup was false, is never reported to that
\* registry, also not when the registry is initialized later.
C11_SkippedImageNeverReported ==
  \A r \in Registries :
    (last.op = "load" /\ ~last.flags[r]) =>
      BlocksOf(r, ImageAt(last.addr), AllPaths) = 0

\* C11 as amended.  An image whose load notification skipped a registry is
\* not reported to it by a notification, and not at all while the registry
\* has not been initialized; each initialize*Lookup() of the registry that
\* returns afterwards has reported the image's non-empty section from its walk.
C11_SkippedImageReportedByWalk ==
  \A r \in Registries :
    (last.op = "load" /\ ~last.flags[r]) =>
      LET i == ImageAt(last.addr)
      IN  /\ BlocksOf(r, i, {"notify", "main"}) = 0
          /\ initCalls[r] = 0 => BlocksOf(r, i, AllPaths) = 0
          /\ HasBlock(r, i) =>
                /\ BlocksOf(r, i, {"enumerate"}) >= initDone[r]
                /\ BlocksOf(r, i, {"enumerate"}) <= initCalls[r]

\* A registry that was skipped by the load notification of an image with a
\* non-empty section was initialized afterwards and got the section from its
\* walk.
C11_Witness ==
  \E r \in Registries :
    /\ last.op = "load"
    /\ ~last.flags[r]
    /\ HasBlock(r, ImageAt(last.addr))
    /\ initDone[r] = 1
    /\ BlocksOf(r, ImageAt(last.addr), {"enumerate"}) = 1

\* C12.  After one initialize*Lookup() of a fresh registry, with every load
\* before it, each loaded image that holds the registry's symbol at S with a
\* prefix L > 0 has been reported exactly once, with (S + 8, L), and nothing
\* else has been reported to the registry.
C12_InitializeReportsEachSectionOnce ==
  \A r \in Registries :
    ( /\ initCalls[r] = 1
      /\ initDone[r] = 1
      /\ \A i \in Images : LookupsOf(r, i, {"notify"}) = 0 ) =>
      /\ \A i \in Images :
           BlocksOf(r, i, AllPaths) =
             IF IsLoaded(i) /\ HasBlock(r, i) THEN 1 ELSE 0
      /\ \A b \in BagToSet(blocks) :
           b.reg = r =>
             /\ b.data = SymbolAddress(b.image, symbolName[r]) + PrefixBytes
             /\ b.size = SectionOf(r, b.image).prefix

\* C13.  didInitializeLookup of each registry is monotonic: no step of
\* initialize*Lookup(), of swift_addNewDSOImage() or of a load takes it from
\* true to false.
C13_FlagIsMonotonic ==
  [][\A r \in Registries : didInitializeLookup[r] => didInitializeLookup'[r]]_vars

\* A registry whose flag is true was initialized a second time and was then
\* notified of a loaded image.
C13_Witness ==
  \E r \in Registries :
    /\ didInitializeLookup[r]
    /\ initDone[r] = 2
    /\ last.op = "load"
    /\ last.flags[r]
    /\ r \in last.entered

\* C14.  Every handle getSectionInfo() gets from dlopen() is given back with
\* dlclose() before it returns, whether the section was found, absent or of
\* length 0: between calls of initialize*Lookup() and swift_addNewDSOImage()
\* the program holds no handle.
C14_NoHandleHeld ==
  openHandles = 0

\* Handles were opened for each outcome: a section that was found, one that
\* is absent and one of length 0, in an initialize*Lookup() that returned and
\* in a notification.
C14_Witness ==
  /\ \E e \in BagToSet(lookups) : HasBlock(e.reg, e.image)
  /\ \E e \in BagToSet(lookups) :
       image[e.image].open = "ok" /\ ~SectionOf(e.reg, e.image).present
  /\ \E e \in BagToSet(lookups) :
       /\ image[e.image].open = "ok"
       /\ SectionOf(e.reg, e.image).present
       /\ SectionOf(e.reg, e.image).prefix = 0
  /\ \E e \in BagToSet(lookups) : e.via = "notify" /\ image[e.image].open = "ok"
  /\ \E r \in Registries : initDone[r] >= 1
  /\ ~dead

\* A swift_addNewDSOImage() call was made in this step, by a load or by
\* anyone.
Notified ==
  notifyCalls' = notifyCalls + 1 \/ Len(loaded') = Len(loaded) + 1

\* A non-null address for which dladdr() returns 0 or gives no file name.
Unresolvable(list, addr) ==
  /\ addr # NullAddr
  /\ dladdr(list, addr).ret = 0 \/ dladdr(list, addr).dli_fname.null

\* C15.  swift_addNewDSOImage() with a non-null address that dladdr() cannot
\* attribute to a loaded image, or for which it gives no file name, does
\* nothing: no lookup, no callback, no change of a flag, no handle, no fatal
\* error.
C15_UnresolvableAddressIsNoOp ==
  [][(Notified /\ Unresolvable(loaded', last'.addr)) =>
       UNCHANGED << lookups, blocks, didInitializeLookup, openHandles, dead,
                    fatal >>]_vars

\* Both registries were initialized and swift_addNewDSOImage() was called
\* for both with an address that lies in no loaded image.
C15_Witness ==
  /\ last.op = "call"
  /\ Unresolvable(loaded, last.addr)
  /\ dladdr(loaded, last.addr).ret = 0
  /\ last.entered = Registries
  /\ BagCardinality(lookups) >= 2

\* What holds of registry r's flag in a state: it is true only if a callback
\* of r's walk has run, true once a walk that visits an image has returned,
\* and never true when dl_iterate_phdr() calls nothing back.
FlagSetInCallback(r) ==
  /\ didInitializeLookup[r] =>
        \/ initDone[r] >= 1
        \/ dead /\ fatal.reg = r /\ fatal.via = "enumerate"
  /\ (initDone[r] >= 1 /\ phdrVisits) => didInitializeLookup[r]
  /\ ~phdrVisits => ~didInitializeLookup[r]

\* C16.  In initialize*Lookup() didInitializeLookup goes from false to true
\* inside the callback of dl_iterate_phdr(): it is false while the main
\* executable is queried and reported and when dl_iterate_phdr() is called,
\* true when dl_iterate_phdr() returns after at least one callback, and the
\* step from false to true is taken by the registry's own walk only.
C16_FlagSetInsideCallback ==
  [][\A r \in Registries :
       /\ FlagSetInCallback(r)'
       /\ (~didInitializeLookup[r] /\ didInitializeLookup'[r]) =>
            /\ pc[r] = "walk"
            /\ pc'[r] = "idle"
            /\ initCalls[r] = 1]_vars

\* One registry has reported the main executable's section and stands before
\* dl_iterate_phdr() with its flag still false, while the other registry's
\* initialize*Lookup() has returned with its flag true.
C16_Witness ==
  \E r \in Registries : \E o \in Registries \ {r} :
    /\ pc[r] = "walk"
    /\ initCalls[r] = 1
    /\ ~didInitializeLookup[r]
    /\ BlocksOf(r, MainImage, {"main"}) = 1
    /\ initDone[o] = 1
    /\ didInitializeLookup[o]

C18_SecondInitializeReportsAgain ==
  \A r \in Registries :
    initDone[r] >= 2 =>
      /\ LookupsOf(r, MainImage, {"main"}) = initCalls[r]
      /\ HasBlock(r, MainImage) => BlocksOf(r, MainImage, {"main"}) = initCalls[r]
      /\ \A i \in Images \ {MainImage} :
           (HasBlock(r, i) /\ BlocksOf(r, i, {"enumerate"}) >= 1) =>
             /\ BlocksOf(r, i, AllPaths) >= 2
             /\ BlocksOf(r, i, {"enumerate"}) + BlocksOf(r, i, {"notify"}) >= 2

\* Two initialize*Lookup() calls of one registry have returned; both reported
\* the main executable's section and both walked a library with a non-empty
\* section.
C18_Witness ==
  \E r \in Registries : \E i \in Images \ {MainImage} :
    /\ initDone[r] = 2
    /\ BlocksOf(r, MainImage, {"main"}) = 2
    /\ BlocksOf(r, i, {"enumerate"}) = 2

\* All the callbacks registry r has had.
BlocksTo(r) ==
  SumCopies({b \in BagToSet(blocks) : b.reg = r}, blocks)

\* C19.  No record is kept of what was reported: each swift_addNewDSOImage()
\* call with an address that dladdr() resolves to an image holding a non-empty
\* section makes exactly one callback for each registry whose flag is true,
\* also when the image was notified or walked before.
C19_EveryNotificationReports ==
  [][\A r \in Registries : \A i \in Images :
       ( /\ Notified
         /\ last'.addr # NullAddr
         /\ ~Unresolvable(loaded', last'.addr)
         /\ i = ImageAt(last'.addr)
         /\ didInitializeLookup[r]
         /\ HasBlock(r, i) ) =>
         /\ BlocksOf(r, i, {"notify"})' = BlocksOf(r, i, {"notify"}) + 1
         /\ BlocksTo(r)' = BlocksTo(r) + 1]_vars

\* A registry was notified twice of the same library and has also walked it:
\* it has been given the library's section three times.
C19_Witness ==
  \E r \in Registries : \E i \in Images \ {MainImage} :
    /\ BlocksOf(r, i, {"notify"}) = 2
    /\ BlocksOf(r, i, {"enumerate"}) = 1
    /\ last.op = "call"

\* The getSectionInfo() calls made for a section symbol.
LookupsOfSymbol(sym) ==
  SumCopies({e \in BagToSet(lookups) : e.symbol = sym}, lookups)

\* The calls made of a callback.
CallsOfCallback(cb) ==
  SumCopies({b \in BagToSet(blocks) : b.callback = cb}, blocks)

\* Nothing of registry o has changed in this step: not its flag, not the
\* lookups of its symbol, not the calls of its callback.
Untouched(o) ==
  /\ didInitializeLookup'[o] = didInitializeLookup[o]
  /\ LookupsOfSymbol(symbolName[o])' = LookupsOfSymbol(symbolName[o])
  /\ CallsOfCallback(addBlock[o])' = CallsOfCallback(addBlock[o])

\* C20.  The two registries are independent: a step of one registry's
\* initialize*Lookup(), and a swift_addNewDSOImage() call that finds the
\* other registry not initialized, leave the other registry's flag as it is,
\* look up no symbol of the other registry and call no callback of it; each
\* lookup and callback uses the symbol and callback of its own registry.
C20_RegistriesIndependent ==
  [][\A r \in Registries : \A o \in Registries \ {r} :
       /\ pc'[r] # pc[r] => Untouched(o)
       /\ (Notified /\ ~didInitializeLookup[o]) => Untouched(o)
       /\ \A e \in BagToSet(lookups') : e.symbol = symbolName[e.reg]
       /\ \A b \in BagToSet(blocks') : b.callback = addBlock[b.reg]]_vars

\* One registry was initialized, reported the main executable's section and
\* was notified of a library, while the other registry, for which both
\* images hold a non-empty section, was left as it started.
C20_Witness ==
  \E r \in Registries : \E o \in Registries \ {r} :
    \E i \in Images \ {MainImage} :
      /\ initDone[r] = 1
      /\ BlocksOf(r, MainImage, {"main"}) = 1
      /\ BlocksOf(r, i, {"notify"}) = 1
      /\ HasBlock(o, MainImage)
      /\ HasBlock(o, i)
      /\ initCalls[o] = 0
      /\ ~didInitializeLookup[o]
      /\ LookupsOfSymbol(symbolName[o]) = 0
      /\ CallsOfCallback(addBlock[o]) = 0

====
